---- MODULE Spec2Model ----
(***************************************************************************)
(* pygsheets/grid_range.py: Address (A1 label <-> 1-based coordinates) and *)
(* GridRange (a pair of Addresses, a combined label and the wire JSON).    *)
(*                                                                         *)
(* Python values are represented as follows.                               *)
(*   str            a sequence of one-character strings, "A1" = <<"A","1">>*)
(*   None / x       None == <<>>, a present value x is Some(x) == <<x>>    *)
(*   (row, col)     <<row, col>>, Python index 0 is TLA+ index 1           *)
(*   raise E        the err field / variable holds the name of E           *)
(***************************************************************************)
EXTENDS Integers, Sequences, FiniteSets, TLC

\* ------------------------------------------------------------------ bounds
MaxAddrRow == 11
MaxAddrCol == 703
MaxCoord == 2
MaxIndex == 1
MaxCalls == 3

\* ------------------------------------------------------- Python primitives
None == <<>>
Some(x) == <<x>>
Truthy(x) == x # None /\ x[1] # 0

NoErr == "none"
InvalidArgumentValue == "InvalidArgumentValue"
IncorrectCellLabel == "IncorrectCellLabel"
AssertionError == "AssertionError"
TypeError == "TypeError"
NoWorksheetId == "Exception"

UpperCase == <<"A","B","C","D","E","F","G","H","I","J","K","L","M",
               "N","O","P","Q","R","S","T","U","V","W","X","Y","Z">>
LowerCase == <<"a","b","c","d","e","f","g","h","i","j","k","l","m",
               "n","o","p","q","r","s","t","u","v","w","x","y","z">>
Digits == <<"0","1","2","3","4","5","6","7","8","9">>

Range(s) == {s[i] : i \in 1..Len(s)}
IndexOf(s, c) == CHOOSE i \in 1..Len(s) : s[i] = c

\* the character classes [A-Za-z] and \d
LetterSet == Range(UpperCase) \cup Range(LowerCase)
DigitSet == Range(Digits)
IsLetter(c) == c \in LetterSet
IsDigit(c) == c \in DigitSet

\* str.upper on one letter
UpperTable == [A |-> "A", B |-> "B", C |-> "C", D |-> "D", E |-> "E", F |-> "F",
                G |-> "G", H |-> "H", I |-> "I", J |-> "J", K |-> "K", L |-> "L",
                M |-> "M", N |-> "N", O |-> "O", P |-> "P", Q |-> "Q", R |-> "R",
                S |-> "S", T |-> "T", U |-> "U", V |-> "V", W |-> "W", X |-> "X",
                Y |-> "Y", Z |-> "Z", a |-> "A", b |-> "B", c |-> "C", d |-> "D",
                e |-> "E", f |-> "F", g |-> "G", h |-> "H", i |-> "I", j |-> "J",
                k |-> "K", l |-> "L", m |-> "M", n |-> "N", o |-> "O", p |-> "P",
                q |-> "Q", r |-> "R", s |-> "S", t |-> "T", u |-> "U", v |-> "V",
                w |-> "W", x |-> "X", y |-> "Y", z |-> "Z"]
Upper(c) == UpperTable[c]

\* ord / chr on the capital letters
OrdTable == [A |-> 65, B |-> 66, C |-> 67, D |-> 68, E |-> 69, F |-> 70, G |-> 71, H |-> 72, I |-> 73,
              J |-> 74, K |-> 75, L |-> 76, M |-> 77, N |-> 78, O |-> 79, P |-> 80, Q |-> 81, R |-> 82,
              S |-> 83, T |-> 84, U |-> 85, V |-> 86, W |-> 87, X |-> 88, Y |-> 89, Z |-> 90]
Ord(c) == OrdTable[c]
Chr(n) == UpperCase[n - 64]

\* the value of a decimal digit
DigitValue(c) == IndexOf(Digits, c) - 1

\* str(n) and int(s) for non-negative decimal numerals
RECURSIVE Str(_)
Str(n) == IF n < 10 THEN <<Digits[n + 1]>> ELSE Str(n \div 10) \o <<Digits[(n % 10) + 1]>>

RECURSIVE IntOf(_)
IntOf(s) == IF Len(s) = 0 THEN 0
          ELSE 10 * IntOf(SubSeq(s, 1, Len(s) - 1)) + DigitValue(s[Len(s)])

RECURSIVE Pow26(_)
Pow26(i) == IF i = 0 THEN 1 ELSE 26 * Pow26(i - 1)

\* the longest prefix of s whose characters satisfy the class (a regex X*)
RECURSIVE LetterPrefix(_)
LetterPrefix(s) == IF Len(s) > 0 /\ IsLetter(Head(s)) THEN <<Head(s)>> \o LetterPrefix(Tail(s)) ELSE <<>>

RECURSIVE DigitPrefix(_)
DigitPrefix(s) == IF Len(s) > 0 /\ IsDigit(Head(s)) THEN <<Head(s)>> \o DigitPrefix(Tail(s)) ELSE <<>>

\* str.split(sep): the list of pieces between occurrences of sep
RECURSIVE SplitAcc(_, _, _)
SplitAcc(s, sep, cur) ==
    IF Len(s) = 0 THEN <<cur>>
    ELSE IF Head(s) = sep THEN <<cur>> \o SplitAcc(Tail(s), sep, <<>>)
    ELSE SplitAcc(Tail(s), sep, Append(cur, Head(s)))

Split(s, sep) == SplitAcc(s, sep, <<>>)

\* ----------------------------------------------------------------- Address
MAGIC_NUMBER == 64

\* Address.__bool__
AddressBool(v) == ~(v[1] = None /\ v[2] = None)

\* Address._validate: the error it raises, NoErr if none
Validate(v, allow_non_single) ==
    IF ~allow_non_single /\ (v[1] = None \/ v[1] = None) THEN InvalidArgumentValue
    ELSE IF Truthy(v[1]) /\ v[1][1] < 1 THEN InvalidArgumentValue
    ELSE IF Truthy(v[2]) /\ v[2][1] < 1 THEN InvalidArgumentValue
    ELSE NoErr

\* ColumnLabel without the borrow (div -= 1) on a remainder of 0
RECURSIVE ColumnLabelNoBorrow(_, _)
ColumnLabelNoBorrow(div, column_label) ==
    IF div = 0 THEN column_label
    ELSE LET d == div \div 26
             m == div % 26
         IN IF m = 0 THEN ColumnLabelNoBorrow(d, <<Chr(26 + MAGIC_NUMBER)>> \o column_label)
            ELSE ColumnLabelNoBorrow(d, <<Chr(m + MAGIC_NUMBER)>> \o column_label)

\* the while loop of Address._value_as_label
RECURSIVE ColumnLabel(_, _)
ColumnLabel(div, column_label) ==
    IF div = 0 THEN column_label
    ELSE LET d == div \div 26
             m == div % 26
         IN IF m = 0 THEN ColumnLabel(d - 1, <<Chr(26 + MAGIC_NUMBER)>> \o column_label)
            ELSE ColumnLabel(d, <<Chr(m + MAGIC_NUMBER)>> \o column_label)

\* Address._value_as_label: [err, s]
ValueAsLabel(v, allow_non_single) ==
    LET e == Validate(v, allow_non_single)
        row_label == IF Truthy(v[1]) THEN Str(v[1][1]) ELSE <<>>
        column_label == IF Truthy(v[2]) THEN ColumnLabel(v[2][1], <<>>) ELSE <<>>
    IN IF e # NoErr THEN [err |-> e, s |-> <<>>]
       ELSE [err |-> NoErr, s |-> column_label \o row_label]

\* the for loop of Address._label_to_coordinates: rev = reversed(column_label),
\* col += (ord(c) - MAGIC_NUMBER) * 26 ** i for i = 0, 1, ...
RECURSIVE ColumnSum(_, _)
ColumnSum(rev, i) ==
    IF i >= Len(rev) THEN 0
    ELSE (Ord(rev[i + 1]) - MAGIC_NUMBER) * Pow26(i) + ColumnSum(rev, i + 1)

Reversed(s) == [i \in 1..Len(s) |-> s[Len(s) + 1 - i]]

ColumnNumber(column_label) == ColumnSum(Reversed(column_label), 0)

\* Address._label_to_coordinates: [err, v].  re.match of ([A-Za-z]*)(\d*)
\* always matches a (possibly empty) prefix of the label.
LabelToCoordinates(label, allow_non_single) ==
    LET letters == LetterPrefix(label)
        column_label == [i \in 1..Len(letters) |-> Upper(letters[i])]
        rowtxt == DigitPrefix(SubSeq(label, Len(letters) + 1, Len(label)))
        col == IF Len(column_label) > 0 THEN Some(ColumnNumber(column_label)) ELSE None
        row == IF Len(rowtxt) > 0 THEN Some(IntOf(rowtxt)) ELSE None
    IN IF ~allow_non_single /\ ~(Truthy(row) /\ Truthy(col))
       THEN [err |-> IncorrectCellLabel, v |-> <<None, None>>]
       ELSE [err |-> NoErr, v |-> <<row, col>>]

\* Constructor inputs, tagged by their Python type.
StrArg(s) == [t |-> "str", s |-> s]
TupleArg(v) == [t |-> "tuple", v |-> v]
NoneArg == [t |-> "None"]
AddressArg(v, allow) == [t |-> "Address", v |-> v, allow |-> allow]

\* Address.__init__: [err, v]
Address(value, allow_non_single) ==
    CASE value.t = "str" -> LabelToCoordinates(value.s, allow_non_single)
      [] value.t = "tuple" -> [err |-> Validate(value.v, allow_non_single), v |-> value.v]
      [] value.t = "None" ->
            IF allow_non_single
            THEN [err |-> Validate(<<None, None>>, allow_non_single), v |-> <<None, None>>]
            ELSE [err |-> IncorrectCellLabel, v |-> <<None, None>>]
      [] value.t = "Address" ->
            LET l == ValueAsLabel(value.v, value.allow)
            IN IF l.err # NoErr THEN [err |-> l.err, v |-> <<None, None>>]
               ELSE LabelToCoordinates(l.s, allow_non_single)

\* Address.__add__ / __sub__ with a 2-tuple: [err, v]; None operands are a TypeError
AddressAdd(v, other) ==
    IF v[1] = None \/ v[2] = None \/ other[1] = None \/ other[2] = None
    THEN [err |-> TypeError, v |-> <<None, None>>]
    ELSE Address(TupleArg(<<Some(v[1][1] + other[1][1]), Some(v[2][1] + other[2][1])>>), FALSE)

AddressSub(v, other) ==
    IF v[1] = None \/ v[2] = None \/ other[1] = None \/ other[2] = None
    THEN [err |-> TypeError, v |-> <<None, None>>]
    ELSE Address(TupleArg(<<Some(v[1][1] - other[1][1]), Some(v[2][1] - other[2][1])>>), FALSE)

\* --------------------------------------------------------------- GridRange
\* A GridRange object g is a record of its fields:
\*   worksheet        None or Some([id, title, rows, cols])
\*   worksheet_title  None or Some(str)        worksheet_id  None or Some(int)
\*   label            str                      start, end    <<row, col>>
\*   err              the exception an operation on g has raised, NoErr if none
\* start and end may be one shared Address object after _apply_index_constraints;
\* every later write either replaces an end by a fresh Address or stores the
\* same value in both, so the sharing is not observable and values are modelled.

\* property GridRange.worksheet_id
WorksheetId(g) == IF g.worksheet # None THEN Some(g.worksheet[1].id) ELSE g.worksheet_id

\* property GridRange.worksheet_title
WorksheetTitle(g) == IF g.worksheet # None THEN Some(g.worksheet[1].title) ELSE g.worksheet_title

\* GridRange._calculate_label
CalculateLabel(g) ==
    LET t == WorksheetTitle(g)
        title == IF t = None THEN <<>> ELSE t[1]
        sl == ValueAsLabel(g.start, TRUE)
        el == ValueAsLabel(g.end, TRUE)
    IN IF AddressBool(g.start) /\ AddressBool(g.end)
       THEN IF sl.err # NoErr THEN [g EXCEPT !.err = sl.err]
            ELSE IF el.err # NoErr THEN [g EXCEPT !.err = el.err]
            ELSE [g EXCEPT !.label = title \o <<"!">> \o sl.s \o <<":">> \o el.s]
       ELSE [g EXCEPT !.label = title]

\* Propagate with the two axes handled by independent tests instead of elif
PropagateBothAxes(g, based_on) ==
    IF based_on = "start"
    THEN IF ~AddressBool(g.start)
         THEN IF AddressBool(g.end) THEN [g EXCEPT !.start = g.end] ELSE g
         ELSE LET r == IF g.start[1] = None \/ g.end[1] = None
                       THEN [g EXCEPT !.start[1] = None, !.end[1] = None] ELSE g
              IN IF r.start[2] = None \/ r.end[2] = None
                 THEN [r EXCEPT !.start[2] = None, !.end[2] = None] ELSE r
    ELSE IF ~AddressBool(g.end)
         THEN IF AddressBool(g.start) THEN [g EXCEPT !.end = g.start] ELSE g
         ELSE IF g.end[1] = None THEN [g EXCEPT !.start[1] = None]
         ELSE IF g.end[2] = None THEN [g EXCEPT !.start[2] = None]
         ELSE g

\* the first part of GridRange._apply_index_constraints: propagation of unboundedness
Propagate(g, based_on) ==
    IF based_on = "start"
    THEN IF ~AddressBool(g.start)
         THEN IF AddressBool(g.end) THEN [g EXCEPT !.start = g.end] ELSE g
         ELSE IF g.start[1] = None \/ g.end[1] = None
         THEN [g EXCEPT !.start[1] = None, !.end[1] = None]
         ELSE IF g.start[2] = None \/ g.end[2] = None
         THEN [g EXCEPT !.start[2] = None, !.end[2] = None]
         ELSE g
    ELSE IF ~AddressBool(g.end)
         THEN IF AddressBool(g.start) THEN [g EXCEPT !.end = g.start] ELSE g
         ELSE IF g.end[1] = None THEN [g EXCEPT !.start[1] = None]
         ELSE IF g.end[2] = None THEN [g EXCEPT !.start[2] = None]
         ELSE g

\* the mismatch test of GridRange._apply_index_constraints (Python truthiness)
Mismatch(s, e) ==
    \/ (Truthy(s[1]) /\ ~Truthy(e[1])) \/ (~Truthy(s[1]) /\ Truthy(e[1]))
    \/ (Truthy(s[2]) /\ ~Truthy(e[2])) \/ (~Truthy(s[2]) /\ Truthy(e[2]))

\* the two assert statements of GridRange._apply_index_constraints
OrderAsserts(s, e) ==
    (AddressBool(s) /\ AddressBool(e)) =>
        /\ (Truthy(s[1]) => s[1][1] <= e[1][1])
        /\ (Truthy(s[2]) => s[2][1] <= e[2][1])

\* GridRange._apply_index_constraints
ApplyIndexConstraints(g, based_on) ==
    IF ~AddressBool(g.start) /\ ~AddressBool(g.end) THEN g
    ELSE LET p == Propagate(g, based_on)
         IN IF Mismatch(p.start, p.end)
            THEN IF based_on = "start"
                 THEN [p EXCEPT !.end = p.start, !.err = InvalidArgumentValue]
                 ELSE [p EXCEPT !.start = p.end, !.err = InvalidArgumentValue]
            ELSE IF ~OrderAsserts(p.start, p.end) THEN [p EXCEPT !.err = AssertionError]
            ELSE CalculateLabel(p)

\* setter GridRange.worksheet_title
SetWorksheetTitle(g, value) ==
    IF g.worksheet # None
    THEN IF g.worksheet[1].title = value THEN g ELSE [g EXCEPT !.err = InvalidArgumentValue]
    ELSE CalculateLabel([g EXCEPT !.worksheet_title = Some(value)])

\* setter GridRange.worksheet_id
SetWorksheetId(g, value) ==
    IF g.worksheet # None
    THEN IF g.worksheet[1].id = value THEN g ELSE [g EXCEPT !.err = InvalidArgumentValue]
    ELSE [g EXCEPT !.worksheet_id = Some(value)]

\* GridRange.set_worksheet
SetWorksheet(g, value) ==
    CalculateLabel([g EXCEPT !.worksheet = Some(value), !.worksheet_id = Some(value.id),
                             !.worksheet_title = Some(value.title)])

\* GridRange._calculate_addresses
CalculateAddresses(g) ==
    LET label == g.label
        parts == Split(label, "!")
        g1 == SetWorksheetTitle(g, parts[1])
        rem == parts[2]
        ends == Split(rem, ":")
        g2 == IF Len(parts) > 1
              THEN IF Len(ends) > 1
                   THEN [g1 EXCEPT !.start = Address(StrArg(ends[1]), TRUE).v,
                                   !.end = Address(StrArg(ends[2]), TRUE).v]
                   ELSE [g1 EXCEPT !.start = Address(StrArg(rem), TRUE).v, !.end = <<None, None>>]
              ELSE [g1 EXCEPT !.start = <<None, None>>, !.end = <<None, None>>]
    IN IF g1.err # NoErr THEN g1 ELSE ApplyIndexConstraints(g2, "start")

\* dict.get(key, None) on a JSON object, a function from its keys to Some(int)
Get(j, key) == IF key \in DOMAIN j THEN j[key] ELSE None

\* idx + 1 if idx is not None else idx
PlusOne(idx) == IF idx # None THEN Some(idx[1] + 1) ELSE idx

\* GridRange.set_json
SetJson(g, namedjson) ==
    LET g1 == IF "sheetId" \in DOMAIN namedjson THEN SetWorksheetId(g, namedjson["sheetId"][1]) ELSE g
        start_row_idx == PlusOne(Get(namedjson, "startRowIndex"))
        end_row_idx == Get(namedjson, "endRowIndex")
        start_col_idx == PlusOne(Get(namedjson, "startColumnIndex"))
        end_col_idx == Get(namedjson, "endColumnIndex")
        s == Address(TupleArg(<<start_row_idx, start_col_idx>>), TRUE)
        e == Address(TupleArg(<<end_row_idx, end_col_idx>>), TRUE)
    IN IF g1.err # NoErr THEN g1
       ELSE IF s.err # NoErr THEN [g1 EXCEPT !.err = s.err]
       ELSE IF e.err # NoErr THEN [g1 EXCEPT !.start = s.v, !.err = e.err]
       ELSE CalculateLabel([g1 EXCEPT !.start = s.v, !.end = e.v])

\* the dictionary GridRange.to_json builds from the fields of g
ReturnDict(g) ==
    LET keys == {"sheetId"}
                \cup (IF Truthy(g.start[1]) THEN {"startRowIndex"} ELSE {})
                \cup (IF Truthy(g.start[2]) THEN {"startColumnIndex"} ELSE {})
                \cup (IF Truthy(g.end[1]) THEN {"endRowIndex"} ELSE {})
                \cup (IF Truthy(g.end[2]) THEN {"endColumnIndex"} ELSE {})
    IN [k \in keys |->
          CASE k = "sheetId" -> WorksheetId(g)
            [] k = "startRowIndex" -> Some(g.start[1][1] - 1)
            [] k = "startColumnIndex" -> g.start[1]
            [] k = "endRowIndex" -> Some(g.end[1][1] - 1)
            [] k = "endColumnIndex" -> g.end[2]]

\* GridRange.to_json: the object after the call (err set if it raised);
\* the value returned is ReturnDict of that object
ToJson(g) ==
    IF WorksheetId(g) = None THEN [g EXCEPT !.err = NoWorksheetId]
    ELSE CalculateAddresses(g)

\* GridRange.get_bounded_indexes: [err, start, end]
GetBoundedIndexes(g) ==
    LET s == IF AddressBool(g.start) THEN g.start ELSE <<None, None>>
        e == IF AddressBool(g.end) THEN g.end ELSE <<None, None>>
        start_r == IF Truthy(s[1]) THEN s[1] ELSE Some(0)
        start_c == IF Truthy(s[2]) THEN s[2] ELSE Some(0)
        end_r == IF Truthy(e[1]) THEN e[1] ELSE Some(g.worksheet[1].rows)
        end_c == IF Truthy(e[2]) THEN e[2] ELSE Some(g.worksheet[1].cols)
        sa == Address(TupleArg(<<start_r, start_c>>), FALSE)
        ea == Address(TupleArg(<<end_r, end_c>>), FALSE)
    IN IF g.worksheet = None THEN [err |-> InvalidArgumentValue, start |-> <<None, None>>, end |-> <<None, None>>]
       ELSE IF sa.err # NoErr THEN [err |-> sa.err, start |-> <<None, None>>, end |-> <<None, None>>]
       ELSE IF ea.err # NoErr THEN [err |-> ea.err, start |-> <<None, None>>, end |-> <<None, None>>]
       ELSE [err |-> NoErr, start |-> sa.v, end |-> ea.v]

\* properties GridRange.height and GridRange.width: [err, n]
Height(g) ==
    LET b == GetBoundedIndexes(g)
    IN IF b.err # NoErr THEN [err |-> b.err, n |-> 0]
       ELSE [err |-> NoErr, n |-> b.end[1][1] - b.start[1][1] + 1]

Width(g) ==
    LET b == GetBoundedIndexes(g)
    IN IF b.err # NoErr THEN [err |-> b.err, n |-> 0]
       ELSE [err |-> NoErr, n |-> b.end[2][1] - b.start[2][1] + 1]

\* setters GridRange.start, GridRange.end and GridRange.indexes
SetStart(g, value) ==
    LET s == Address(value, TRUE)
        g1 == ApplyIndexConstraints([g EXCEPT !.start = s.v], "start")
    IN IF s.err # NoErr THEN [g EXCEPT !.err = s.err]
       ELSE IF g1.err # NoErr THEN g1
       ELSE CalculateLabel(g1)

SetEnd(g, value) ==
    LET e == Address(value, TRUE)
        g1 == ApplyIndexConstraints([g EXCEPT !.end = e.v], "start")
    IN IF e.err # NoErr THEN [g EXCEPT !.err = e.err]
       ELSE IF g1.err # NoErr THEN g1
       ELSE CalculateLabel(g1)

SetIndexes(g, value) ==
    LET s == Address(value.v[1], TRUE)
        e == Address(value.v[2], TRUE)
        g1 == ApplyIndexConstraints([g EXCEPT !.start = s.v, !.end = e.v], "start")
    IN IF value.t # "tuple" THEN [g EXCEPT !.err = InvalidArgumentValue]
       ELSE IF s.err # NoErr THEN [g EXCEPT !.err = s.err]
       ELSE IF e.err # NoErr THEN [g EXCEPT !.err = e.err]
       ELSE IF g1.err # NoErr THEN g1
       ELSE CalculateLabel(g1)

\* setter GridRange.label
SetLabel(g, value) ==
    IF value.t # "str" THEN [g EXCEPT !.err = InvalidArgumentValue]
    ELSE CalculateAddresses([g EXCEPT !.label = value.s])

\* GridRange.__init__; label, worksheet, worksheet_title, worksheet_id are
\* None or Some(x), start and end are Address inputs, namedjson a JSON object
\* (the empty one is falsy, like None)
GridRangeInit(label, worksheet, start, end, worksheet_title, worksheet_id, namedjson) ==
    LET s == Address(start, TRUE)
        e == Address(end, TRUE)
        g == [worksheet |-> worksheet, worksheet_title |-> worksheet_title,
              worksheet_id |-> worksheet_id,
              label |-> IF label = None THEN <<>> ELSE label[1],
              start |-> s.v, end |-> e.v, err |-> NoErr]
        g1 == ApplyIndexConstraints(g, "start")
    IN IF s.err # NoErr THEN [g EXCEPT !.err = s.err]
       ELSE IF e.err # NoErr THEN [g EXCEPT !.err = e.err]
       ELSE IF DOMAIN namedjson # {} THEN SetJson(g, namedjson)
       ELSE IF label # None /\ label[1] # <<>> THEN CalculateAddresses(g)
       ELSE IF g1.err # NoErr THEN g1
       ELSE CalculateLabel(g1)

\* ------------------------------------------------------------------- state
VARIABLES exists, worksheet, worksheet_title, worksheet_id, label, start, end,
          a, b, op, arg, err, ret, calls

\* exists: a GridRange object has been constructed

\* worksheet .. end: the fields of the GridRange object
\* a: the Address object under test, None or Some([v, allow_non_single])
\* b: the Address built from a's label, b = Address(a.label)
\* op, arg: the last operation called; its argument for the constructors and set_json
\* err: the exception it raised (NoErr if it returned), ret: what it returned
\* calls: the number of calls made on the GridRange class so far
fields == <<worksheet, worksheet_title, worksheet_id, label, start, end>>
vars == <<exists, worksheet, worksheet_title, worksheet_id, label, start, end, a, b, op, arg, err, ret, calls>>

Self == [worksheet |-> worksheet, worksheet_title |-> worksheet_title,
         worksheet_id |-> worksheet_id, label |-> label,
         start |-> start, end |-> end, err |-> NoErr]

\* ------------------------------------------------------------------ inputs
Sheet1 == [id |-> 0, title |-> <<"S">>, rows |-> 100, cols |-> 26]
Titles == {<<"S">>, <<"T">>}

BoundCoords == {None} \cup {Some(n) : n \in 1..MaxCoord}
IndexCoords == {<<Some(1), Some(1)>>, <<Some(2), Some(2)>>, <<None, Some(1)>>, <<Some(2), None>>}
AddressInputs ==
    {NoneArg} \cup {TupleArg(v) : v \in BoundCoords \X BoundCoords}
    \cup {TupleArg(<<Some(-1), Some(1)>>), StrArg(<<"b", "2">>)}

\* range labels: a bare title, one cell, and start:end over CellLabels
CellLabels == {<<"A", "1">>, <<"B", "2">>, <<"A">>, <<"2">>}
RangeLabels ==
    {<<"S">>, <<"T", "!", "A", "1", ":", "B", "2">>}
    \cup {<<"S", "!">> \o c : c \in CellLabels}
    \cup {<<"S", "!">> \o c \o <<":">> \o d : c \in CellLabels, d \in CellLabels}

IndexesInputs ==
    {NoneArg} \cup {TupleArg(<<TupleArg(s), TupleArg(e)>>) : s \in IndexCoords, e \in IndexCoords}

Indexes == {None} \cup {Some(n) : n \in 0..MaxIndex}
JsonOf(sheet, sr, er, sc, ec) ==
    LET all == [sheetId |-> sheet, startRowIndex |-> sr, endRowIndex |-> er,
                startColumnIndex |-> sc, endColumnIndex |-> ec]
    IN [k \in {x \in DOMAIN all : all[x] # None} |-> all[k]]
Jsons ==
    {JsonOf(Some(0), sr, er, sc, ec) : sr \in Indexes, er \in Indexes, sc \in Indexes, ec \in Indexes}
    \cup {JsonOf(None, Some(0), Some(1), None, None), JsonOf(Some(1), Some(0), Some(1), None, None),
          JsonOf(Some(0), Some(0), Some(-1), None, None)}
EmptyJson == JsonOf(None, None, None, None, None)

AddrRows == {None} \cup {Some(n) : n \in (-1)..MaxAddrRow}
AddrCols == {None} \cup {Some(n) : n \in (-1)..MaxAddrCol}
AddrLabels == {<<"A">>, <<"1", "2">>, <<"A", "1">>, <<"a", "b", "7">>, <<>>, <<"A", "0">>, <<"1", "A">>}
Offsets == {<<Some(0), Some(1)>>, <<Some(1), Some(0)>>, <<Some(1), Some(1)>>, <<None, Some(1)>>}

\* ------------------------------------------------------------------ Init
\* no GridRange and no Address constructed yet
NoObjects ==
    /\ exists = FALSE
    /\ worksheet = None /\ worksheet_title = None /\ worksheet_id = None
    /\ label = <<>> /\ start = <<None, None>> /\ end = <<None, None>>
    /\ a = None /\ b = None
    /\ err = NoErr /\ ret = None /\ calls = 0

Init == NoObjects /\ op = "none" /\ arg = None

\* the object becomes g; the call (o, x) raised g.err or returned r
FinishRec(g, o, x, r) ==
    /\ worksheet' = g.worksheet /\ worksheet_title' = g.worksheet_title
    /\ worksheet_id' = g.worksheet_id /\ label' = g.label
    /\ start' = g.start /\ end' = g.end
    /\ op' = o /\ arg' = x /\ err' = g.err /\ ret' = r
    /\ calls' = calls + 1
    /\ UNCHANGED <<exists, a, b>>

\* (the object is computed once)
Finish(gg, o, x, r) == \E g \in {gg} : FinishRec(g, o, x, r)

\* a constructor call: the object exists afterwards unless __init__ raised
ConstructRec(g, x) ==
    /\ IF g.err = NoErr
       THEN /\ exists' = TRUE
            /\ worksheet' = g.worksheet /\ worksheet_title' = g.worksheet_title
            /\ worksheet_id' = g.worksheet_id /\ label' = g.label
            /\ start' = g.start /\ end' = g.end
       ELSE UNCHANGED <<exists, fields>>
    /\ op' = "__init__" /\ arg' = x /\ err' = g.err /\ ret' = None
    /\ calls' = calls + 1
    /\ UNCHANGED <<a, b>>

Construct(gg, x) == \E g \in {gg} : ConstructRec(g, x)

\* ------------------------------------------------------- GridRange actions
\* GridRange(start=.., end=.., worksheet=.., worksheet_title=..)
NewFromStartEnd ==
    /\ ~exists /\ calls = 0
    /\ \E s \in AddressInputs, e \in AddressInputs, w \in {None, Some(Sheet1)}, t \in {None, Some(<<"S">>)} :
           Construct(GridRangeInit(None, w, s, e, t, None, EmptyJson),
                     [start |-> s, end |-> e, worksheet |-> w, worksheet_title |-> t])

\* GridRange(label=.., worksheet=..)
NewFromLabel ==
    /\ ~exists /\ calls = 0
    /\ \E l \in RangeLabels, w \in {None, Some(Sheet1)} :
           Construct(GridRangeInit(Some(l), w, NoneArg, NoneArg, None, None, EmptyJson),
                     [label |-> l, worksheet |-> w])

\* GridRange(namedjson=.., worksheet_title=..)
NewFromJson ==
    /\ ~exists /\ calls = 0
    /\ \E j \in Jsons, t \in {None, Some(<<"S">>)} :
           Construct(GridRangeInit(None, None, NoneArg, NoneArg, t, None, j),
                     [namedjson |-> j, worksheet_title |-> t])

StartSetter ==
    /\ exists /\ calls < MaxCalls
    /\ \E value \in AddressInputs : Finish(SetStart(Self, value), "start", None, None)

EndSetter ==
    /\ exists /\ calls < MaxCalls
    /\ \E value \in AddressInputs : Finish(SetEnd(Self, value), "end", None, None)

IndexesSetter ==
    /\ exists /\ calls < MaxCalls
    /\ \E value \in IndexesInputs :
        Finish(SetIndexes(Self, value), "indexes", None, None)

LabelSetter ==
    /\ exists /\ calls < MaxCalls
    /\ \E value \in {NoneArg} \cup {StrArg(l) : l \in RangeLabels} :
        Finish(SetLabel(Self, value), "label", None, None)

WorksheetTitleSetter ==
    /\ exists /\ calls < MaxCalls
    /\ \E value \in Titles : Finish(SetWorksheetTitle(Self, value), "worksheet_title", None, None)

SetWorksheetCall ==
    /\ exists /\ calls < MaxCalls
    /\ Finish(SetWorksheet(Self, Sheet1), "set_worksheet", None, None)

SetJsonCall ==
    /\ exists /\ calls < MaxCalls
    /\ \E namedjson \in Jsons : Finish(SetJson(Self, namedjson), "set_json", namedjson, None)

ToJsonCall ==
    /\ exists /\ calls < MaxCalls
    /\ LET g == ToJson(Self)
       IN Finish(g, "to_json", None, IF g.err = NoErr THEN Some(ReturnDict(g)) ELSE None)

GetBoundedIndexesCall ==
    /\ exists /\ calls < MaxCalls
    /\ LET r == GetBoundedIndexes(Self)
       IN Finish([Self EXCEPT !.err = r.err], "get_bounded_indexes", None,
              IF r.err = NoErr THEN Some(<<r.start, r.end>>) ELSE None)

HeightGetter ==
    /\ exists /\ calls < MaxCalls
    /\ LET r == Height(Self)
       IN Finish([Self EXCEPT !.err = r.err], "height", None, IF r.err = NoErr THEN Some(r.n) ELSE None)

WidthGetter ==
    /\ exists /\ calls < MaxCalls
    /\ LET r == Width(Self)
       IN Finish([Self EXCEPT !.err = r.err], "width", None, IF r.err = NoErr THEN Some(r.n) ELSE None)

Next ==
    \/ NewFromStartEnd \/ NewFromLabel \/ NewFromJson
    \/ StartSetter \/ EndSetter \/ IndexesSetter \/ LabelSetter
    \/ WorksheetTitleSetter \/ SetWorksheetCall
    \/ SetJsonCall \/ ToJsonCall
    \/ GetBoundedIndexesCall \/ HeightGetter \/ WidthGetter

Spec == Init /\ [][Next]_vars

\* --------------------------------------------------------- Address actions
\* the Address object becomes the one built by r, if r did not raise
FinishAddress(r, allow, o, x) ==
    /\ a' = IF r.err = NoErr THEN Some([v |-> r.v, allow_non_single |-> allow]) ELSE None
    /\ b' = None
    /\ op' = o /\ arg' = x /\ err' = r.err /\ ret' = None
    /\ UNCHANGED <<exists, fields, calls>>

\* the arguments of the constructor call are drawn beforehand
AddressCalls ==
    {[value |-> TupleArg(<<row, col>>), allow_non_single |-> allow] :
        row \in AddrRows, col \in AddrCols, allow \in BOOLEAN}
    \cup {[value |-> value, allow_non_single |-> allow] :
        value \in {NoneArg} \cup {StrArg(l) : l \in AddrLabels}, allow \in BOOLEAN}

InitAddress == NoObjects /\ op = "none" /\ arg \in AddressCalls

\* a = Address(value, allow_non_single)
NewAddress ==
    /\ op = "none"
    /\ FinishAddress(Address(arg.value, arg.allow_non_single), arg.allow_non_single, "Address", arg)

\* a.label
LabelGetter ==
    /\ a # None
    /\ LET r == ValueAsLabel(a[1].v, a[1].allow_non_single)
       IN /\ op' = "label" /\ arg' = None /\ err' = r.err
          /\ ret' = IF r.err = NoErr THEN Some(r.s) ELSE None
    /\ UNCHANGED <<exists, fields, calls, a, b>>

\* b = Address(a.label)
Reparse ==
    /\ a # None
    /\ LET l == ValueAsLabel(a[1].v, a[1].allow_non_single)
           r == Address(StrArg(l.s), FALSE)
       IN /\ op' = "reparse" /\ arg' = None /\ ret' = None
          /\ err' = IF l.err # NoErr THEN l.err ELSE r.err
          /\ b' = IF l.err = NoErr /\ r.err = NoErr
                  THEN Some([v |-> r.v, allow_non_single |-> FALSE]) ELSE None
    /\ UNCHANGED <<exists, fields, calls, a>>

InRange(v) ==
    /\ (v[1] # None => v[1][1] <= MaxAddrRow)
    /\ (v[2] # None => v[2][1] <= MaxAddrCol)

\* a = a + other
Add ==
    /\ a # None
    /\ \E other \in Offsets :
        LET r == AddressAdd(a[1].v, other)
        IN /\ InRange(r.v)
           /\ FinishAddress(r, FALSE, "add", other)

\* a = a - other
Sub ==
    /\ a # None
    /\ \E other \in Offsets : FinishAddress(AddressSub(a[1].v, other), FALSE, "sub", other)

NextAddress == NewAddress \/ LabelGetter \/ Reparse \/ Add \/ Sub

SpecAddress == InitAddress /\ [][NextAddress]_vars

\* the constructor alone
NextInit == NewFromStartEnd \/ NewFromLabel \/ NewFromJson

SpecInit == Init /\ [][NextInit]_vars

\* ------------------------------------------------------------------ claims
\* a coordinate pair with both components present and >= 1
ValidPair(v) == v[1] # None /\ v[2] # None /\ v[1][1] >= 1 /\ v[2][1] >= 1

ColumnExamples ==
    {<<1, <<"A">>>>, <<26, <<"Z">>>>, <<27, <<"A", "A">>>>, <<52, <<"A", "Z">>>>,
     <<53, <<"B", "A">>>>, <<702, <<"Z", "Z">>>>, <<703, <<"A", "A", "A">>>>}

\* C1: for every (r, c) with r, c >= 1, Address(Address((r, c)).label).tuple is
\* (r, c) again, and the letters of the label are the bijective base-26 numeral
\* of the column: 1 A, 26 Z, 27 AA, 52 AZ, 53 BA, 702 ZZ, 703 AAA.
C1_LabelRoundTrip ==
    /\ (op = "reparse" /\ ValidPair(a[1].v)) =>
            (err = NoErr /\ b # None /\ b[1].v = a[1].v)
    /\ (op = "label" /\ ValidPair(a[1].v)) =>
            /\ err = NoErr
            /\ \A x \in ColumnExamples :
                  a[1].v[2] = Some(x[1]) => LetterPrefix(ret[1]) = x[2]
            /\ ret[1] = LetterPrefix(ret[1]) \o Str(a[1].v[1][1])

C1_Witness ==
    /\ op = "reparse" /\ a # None /\ b # None
    /\ a[1].v = <<Some(10), Some(703)>> /\ b[1].v = <<Some(10), Some(703)>>

\* C2: no Address that exists has a bound component below 1: constructing one
\* from such a tuple, or reaching one by + or -, raises instead.
C2_NoComponentBelowOne ==
    a # None => /\ (a[1].v[1] # None => a[1].v[1][1] >= 1)
                /\ (a[1].v[2] # None => a[1].v[2][1] >= 1)

\* C3: an Address constructed with allow_non_single false has both its row and
\* its column present; construction from an input lacking either one fails.
C3_SingleHasBothComponents ==
    (a # None /\ ~a[1].allow_non_single) => (a[1].v[1] # None /\ a[1].v[2] # None)

\* the label the fields of the GridRange call for
ExpectedLabel ==
    LET t == IF worksheet # None THEN worksheet[1].title
             ELSE IF worksheet_title = None THEN <<>> ELSE worksheet_title[1]
    IN IF AddressBool(start) /\ AddressBool(end)
       THEN t \o <<"!">> \o ValueAsLabel(start, TRUE).s \o <<":">> \o ValueAsLabel(end, TRUE).s
       ELSE t

\* C4: in every state of a GridRange, also the one an operation that raised
\* leaves behind, label is <worksheet_title>!<start.label>:<end.label> when both
\* ends are set and the worksheet title ('' if none) otherwise.
C4_LabelConsistent == exists => label = ExpectedLabel

\* C5: in every state of a GridRange each axis is bound on both start and end or
\* unbound on both.
C5_AxisBoundedness ==
    exists => \A i \in {1, 2} : (start[i] = None) <=> (end[i] = None)

\* C6: in every state of a GridRange, start <= end on each axis where both ends
\* are bound; no operation leaves the range holding start > end.
C6_Ordering ==
    exists => \A i \in {1, 2} :
        (start[i] # None /\ end[i] # None) => start[i][1] <= end[i][1]

\* a wire object with a sheetId whose indexes form a range: start < end per axis
WellFormed(j) ==
    /\ "sheetId" \in DOMAIN j
    /\ ({"startRowIndex", "endRowIndex"} \subseteq DOMAIN j
            => j["startRowIndex"][1] < j["endRowIndex"][1])
    /\ ({"startColumnIndex", "endColumnIndex"} \subseteq DOMAIN j
            => j["startColumnIndex"][1] < j["endColumnIndex"][1])

\* C7: set_json(j) on a well-formed j followed by to_json() returns the sheetId
\* of j and, for every index present in j, the value it has in j.
C7_JsonRoundTrip ==
    [][(op = "set_json" /\ err = NoErr /\ WellFormed(arg) /\ op' = "to_json") =>
          /\ err' = NoErr /\ ret' # None
          /\ \A k \in DOMAIN arg : k \in DOMAIN ret'[1] /\ ret'[1][k] = arg[k]]_vars

\* the bounded indexes of the range on its worksheet: 1 for an unbound start
\* axis, the sheet's rows / cols for an unbound end axis
BoundedStart == [i \in {1, 2} |-> IF start[i] = None THEN Some(1) ELSE start[i]]
BoundedEnd ==
    [i \in {1, 2} |-> IF end[i] # None THEN end[i]
                      ELSE IF i = 1 THEN Some(worksheet[1].rows) ELSE Some(worksheet[1].cols)]

\* C8: with a worksheet of R rows and C columns attached, get_bounded_indexes()
\* returns the start with unbound axes replaced by 1 and the end with unbound
\* axes replaced by R / C, height and width are end - start + 1 on their axis;
\* without a worksheet the call raises InvalidArgumentValue.
C8_BoundedIndexes ==
    /\ (op \in {"get_bounded_indexes", "height", "width"} /\ worksheet = None)
            => err = InvalidArgumentValue
    /\ (op = "get_bounded_indexes" /\ worksheet # None) =>
            (err = NoErr /\ ret = Some(<<<<BoundedStart[1], BoundedStart[2]>>,
                                        <<BoundedEnd[1], BoundedEnd[2]>>>>))
    /\ (op = "height" /\ worksheet # None) =>
            (err = NoErr /\ ret = Some(BoundedEnd[1][1] - BoundedStart[1][1] + 1))
    /\ (op = "width" /\ worksheet # None) =>
            (err = NoErr /\ ret = Some(BoundedEnd[2][1] - BoundedStart[2][1] + 1))

\* the constructor was called with explicit start and end tuples, both
\* non-empty, whose coordinates are None or >= 1
ExplicitStartEnd ==
    /\ op = "__init__" /\ "start" \in DOMAIN arg
    /\ arg.start.t = "tuple" /\ arg.end.t = "tuple"
    /\ arg.start.v \in BoundCoords \X BoundCoords /\ arg.end.v \in BoundCoords \X BoundCoords
    /\ AddressBool(arg.start.v) /\ AddressBool(arg.end.v)

\* the axes on which the start and end passed to the constructor differ in boundedness
DifferingAxes == {i \in {1, 2} : (arg.start.v[i] = None) # (arg.end.v[i] = None)}

\* C9 as stated: constructing a GridRange from explicit non-empty start and end
\* that differ in boundedness on some axis fails with InvalidArgumentValue.
C9_AnyMismatchRejected ==
    (ExplicitStartEnd /\ DifferingAxes # {}) => (err = InvalidArgumentValue /\ ~exists)

\* C9 amended: the construction fails with InvalidArgumentValue when start and
\* end differ in boundedness on both axes; when they differ on one axis only no
\* InvalidArgumentValue is raised and the range constructed is unbound on that
\* axis at both ends, the other axis being as passed.
C9_BothAxesMismatchRejected ==
    ExplicitStartEnd =>
        /\ DifferingAxes = {1, 2} => (err = InvalidArgumentValue /\ ~exists)
        /\ \A i \in {1, 2} : DifferingAxes = {i} =>
              /\ err # InvalidArgumentValue
              /\ exists => /\ start[i] = None /\ end[i] = None
                           /\ start[3 - i] = arg.start.v[3 - i]
                           /\ end[3 - i] = arg.end.v[3 - i]

C9_Witness ==
    /\ ExplicitStartEnd /\ err = InvalidArgumentValue /\ ~exists
    /\ arg.start.v = <<Some(1), None>> /\ arg.end.v = <<None, Some(2)>>

\* the single cell the constructor was given as its only end, None if the call
\* is not of that shape: start only, end only, or a label with one cell and no ':'
OnlyEnd ==
    IF op # "__init__" THEN None
    ELSE IF "start" \in DOMAIN arg
    THEN IF arg.start.t = "tuple" /\ arg.end.t = "None" /\ ValidPair(arg.start.v)
         THEN Some(arg.start.v)
         ELSE IF arg.end.t = "tuple" /\ arg.start.t = "None" /\ ValidPair(arg.end.v)
         THEN Some(arg.end.v)
         ELSE None
    ELSE IF "label" \in DOMAIN arg
    THEN LET parts == Split(arg.label, "!")
         IN IF Len(parts) = 2 /\ Len(Split(parts[2], ":")) = 1
               /\ ValidPair(LabelToCoordinates(parts[2], TRUE).v)
            THEN Some(LabelToCoordinates(parts[2], TRUE).v)
            ELSE None
    ELSE None

\* C10: when exactly one end is provided to the constructor (start only, end
\* only, or a label without ':') the call succeeds and start = end = that cell.
C10_SingleCellRange ==
    OnlyEnd # None => (err = NoErr /\ exists /\ start = OnlyEnd[1] /\ end = OnlyEnd[1])

====
